---- MODULE Spec2Model ----
(***************************************************************************)
(* protoc-gen-tonic (src/src/main.rs): flag parsing, module resolution,    *)
(* generator invocation and the output router of main().                   *)
(*                                                                         *)
(* Text (flag values, paths, package names, file contents) is a sequence   *)
(* of one-character strings, so that splitting, wrapping and file offsets  *)
(* are computed the way the program computes them.                         *)
(***************************************************************************)
EXTENDS Integers, Sequences, FiniteSets, TLC

\* ------------------------------------------------------------------ bounds
MaxFiles == 3
MaxRouteFlags == 2
MaxWrapFlags == 1
MaxAttrFlags == 1

\* ------------------------------------------------------------- text helpers
SeqsUpTo(S, n) == UNION {[1..k -> S] : k \in 0..n}

Range(s) == {s[i] : i \in 1..Len(s)}

RECURSIVE Flatten(_)
Flatten(ss) == IF ss = <<>> THEN <<>> ELSE Head(ss) \o Flatten(Tail(ss))

\* index of the first occurrence of pat in s, 0 when there is none
FindFirst(s, pat) ==
    LET hits == {i \in 1..(Len(s) - Len(pat) + 1) : SubSeq(s, i, i + Len(pat) - 1) = pat}
    IN  IF hits = {} THEN 0 ELSE CHOOSE i \in hits : \A j \in hits : i <= j

\* str::split(pat): every piece, empty ones included
RECURSIVE split(_, _)
split(s, pat) ==
    LET i == FindFirst(s, pat)
    IN  IF i = 0 THEN <<s>>
        ELSE <<SubSeq(s, 1, i - 1)>> \o split(SubSeq(s, i + Len(pat), Len(s)), pat)

\* str::splitn(2, pat): at most two pieces, cut at the first occurrence
splitn2(s, pat) ==
    LET i == FindFirst(s, pat)
    IN  IF i = 0 THEN <<s>>
        ELSE <<SubSeq(s, 1, i - 1), SubSeq(s, i + Len(pat), Len(s))>>

NonEmpty(ss) == SelectSeq(ss, LAMBDA x : x # <<>>)

IsPrefix(a, b) == Len(a) <= Len(b) /\ SubSeq(b, 1, Len(a)) = a

\* t occurs in c as a contiguous run of characters
Occurs(t, c) == FindFirst(c, t) # 0

\* ------------------------------------------------------------ split_arg
\* mutant: a value without '=' is accepted with an empty right-hand side
split_arg_lenient(s) ==
    LET segs == splitn2(s, <<"=">>)
    IN  IF Len(segs) # 2 THEN [panic |-> FALSE, a |-> s, b |-> <<>>]
        ELSE [panic |-> FALSE, a |-> segs[1], b |-> segs[2]]

split_arg(s) ==
    LET segs == splitn2(s, <<"=">>)
    IN  IF Len(segs) # 2 THEN [panic |-> TRUE, a |-> <<>>, b |-> <<>>]
        ELSE [panic |-> FALSE, a |-> segs[1], b |-> segs[2]]

\* one of the flag loops of main panics iff split_arg panics on some value
AnyPanics(flags) == \E i \in 1..Len(flags) : split_arg(flags[i]).panic

\* HashMap filled by inserting (a, b) for each flag in order: a later key replaces an earlier one
RECURSIVE InsertAll(_, _)
InsertAll(map, flags) ==
    IF flags = <<>> THEN map
    ELSE LET kv == split_arg(Head(flags))
         IN  InsertAll((kv.a :> kv.b) @@ map, Tail(flags))

\* ---------------------------------------------------------- write_with_module
PubMod == <<"p", "u", "b", " ", "m", "o", "d", " ">>
OpenBrace == <<" ", "{", "\n">>
CloseBrace == <<"}", "\n">>
NewLine == <<"\n">>

\* mutant: one closing marker too few when wrapping
write_with_module_short(content, mods) ==
    Flatten([i \in 1..Len(mods) |-> PubMod \o mods[i] \o OpenBrace])
        \o content \o NewLine
        \o Flatten([i \in 1..(IF Len(mods) > 0 THEN Len(mods) - 1 ELSE 0) |-> CloseBrace])

\* the bytes written to f, in order
write_with_module(content, mods) ==
    Flatten([i \in 1..Len(mods) |-> PubMod \o mods[i] \o OpenBrace])
        \o content \o NewLine
        \o Flatten([i \in 1..Len(mods) |-> CloseBrace])

\* ------------------------------------------------------------------- paths
Dot == <<".">>
DotDot == <<".", ".">>

Front(c) == SubSeq(c, 1, Len(c) - 1)
Last(c) == c[Len(c)]

IsAbsolute(p) == Len(p) > 0 /\ p[1] = "/"

\* Path::components: the root and empty pieces are no names, "." is kept only
\* as the first piece of a relative path, ".." is kept
path_components(p) ==
    LET names == NonEmpty(split(p, <<"/">>))
        lead == ~IsAbsolute(p) /\ names # <<>> /\ names[1] = Dot
        rest == SelectSeq(IF lead THEN Tail(names) ELSE names, LAMBDA n : n # Dot)
    IN  IF lead THEN <<Dot>> \o rest ELSE rest

\* the string ends in a separator (or a separator and "."): it can only name a directory
NamesDirectory(p) ==
    LET pieces == split(p, <<"/">>)
    IN  Len(pieces) > 1 /\ Last(pieces) \in {<<>>, Dot}

\* PathBuf::from: the path as the program holds it
PathBuf_from(p) ==
    [abs |-> IsAbsolute(p), comps |-> path_components(p), trail |-> NamesDirectory(p)]

\* Path::parent: None when there is no component left, otherwise the path without its last one
HasParent(P) == P.comps # <<>>
Parent(P) == [abs |-> P.abs, comps |-> Front(P.comps), trail |-> FALSE]

\* ------------------------------------------------------------- file system
\* A location is the sequence of names from the root directory; the process
\* runs in the directory Cwd.
Cwd == << <<"w">> >>

Start(P) == IF P.abs THEN <<>> ELSE Cwd

\* path resolution by the system: every component walked must be a directory
RECURSIVE walk(_, _, _)
walk(f, loc, comps) ==
    IF comps = <<>> THEN [ok |-> TRUE, loc |-> loc, missing |-> FALSE]
    ELSE LET c == Head(comps)
             next == IF c = Dot THEN loc
                     ELSE IF c = DotDot THEN (IF loc = <<>> THEN loc ELSE Front(loc))
                     ELSE Append(loc, c)
         IN  IF next \in f.dirs THEN walk(f, next, Tail(comps))
             ELSE [ok |-> FALSE, loc |-> loc, missing |-> next \notin DOMAIN f.files]

\* Path::is_dir: stat of the path; the empty path names nothing
is_dir(f, P) == (P.abs \/ P.comps # <<>>) /\ walk(f, Start(P), P.comps).ok

\* mkdir(2): "ok", "notfound" (a directory on the way is missing), or another error
mkdir(f, P) ==
    IF P.comps = <<>> THEN [res |-> "exists", fs |-> f]
    ELSE LET wk == walk(f, Start(P), Front(P.comps))
             target == Append(wk.loc, Last(P.comps))
         IN  IF ~wk.ok THEN [res |-> IF wk.missing THEN "notfound" ELSE "notdir", fs |-> f]
             ELSE IF Last(P.comps) \in {Dot, DotDot} \/ target \in f.dirs
                        \/ target \in DOMAIN f.files
                  THEN [res |-> "exists", fs |-> f]
                  ELSE [res |-> "ok", fs |-> [f EXCEPT !.dirs = @ \cup {target}]]

\* the element of a one-element set: { e(x) : x \in {call} } is e at the
\* result of the call, the call made once
The(S) == CHOOSE r \in S : TRUE

\* DirBuilder::create_dir_all: mkdir, on "not found" the parent first and mkdir again
RECURSIVE dir_all(_, _)
dir_all(f, P) ==
    IF P.comps = <<>> /\ ~P.abs THEN [ok |-> TRUE, fs |-> f]
    ELSE The({
         IF m1.res = "ok" THEN [ok |-> TRUE, fs |-> m1.fs]
         ELSE IF m1.res # "notfound" THEN [ok |-> is_dir(f, P), fs |-> f]
         ELSE IF ~HasParent(P) THEN [ok |-> FALSE, fs |-> f]
         ELSE The({
              IF ~up.ok THEN up
              ELSE The({
                   IF m2.res = "ok" THEN [ok |-> TRUE, fs |-> m2.fs]
                   ELSE [ok |-> is_dir(up.fs, P), fs |-> up.fs]
                   : m2 \in {mkdir(up.fs, P)} })
              : up \in {dir_all(f, Parent(P))} })
         : m1 \in {mkdir(f, P)} })

\* w = [fs, ops, err, created, loc]: the file system, the calls made so far in
\* this step, the first fatal error, the files created so far in the run, and
\* the location of the file opened last
NoErr == "none"

create_dir_all(w, P) ==
    IF w.err # NoErr THEN w
    ELSE The({
         [w EXCEPT !.fs = r.fs,
                   !.err = IF r.ok THEN NoErr ELSE "failed to create directory",
                   !.ops = @ \o <<[op |-> "create_dir_all", path |-> P, loc |-> <<>>,
                                   ok |-> r.ok]>>]
         : r \in {dir_all(w.fs, P)} })

\* open(2) for writing with creation refuses a path that names a directory
CannotCreate(f, P) ==
    \/ P.comps = <<>>
    \/ P.trail
    \/ Last(P.comps) \in {Dot, DotDot}
    \/ ~walk(f, Start(P), Front(P.comps)).ok
    \/ Append(walk(f, Start(P), Front(P.comps)).loc, Last(P.comps)) \in f.dirs

Locate(f, P) == Append(walk(f, Start(P), Front(P.comps)).loc, Last(P.comps))

\* mutant: an existing file is opened without being truncated
File_create_keep(w, P) ==
    IF w.err # NoErr THEN w
    ELSE IF CannotCreate(w.fs, P)
         THEN [w EXCEPT !.err = "failed to create file",
                        !.ops = @ \o <<[op |-> "create", path |-> P, loc |-> <<>>, ok |-> FALSE]>>]
         ELSE LET c == Locate(w.fs, P)
              IN  [w EXCEPT !.fs.files = @ @@ (c :> <<>>),
                            !.created = Append(@, c),
                            !.loc = c,
                            !.ops = @ \o <<[op |-> "create", path |-> P, loc |-> c, ok |-> TRUE]>>]

\* File::create: write-only, created if absent, truncated if present
File_create(w, P) ==
    IF w.err # NoErr THEN w
    ELSE IF CannotCreate(w.fs, P)
         THEN [w EXCEPT !.err = "failed to create file",
                        !.ops = @ \o <<[op |-> "create", path |-> P, loc |-> <<>>, ok |-> FALSE]>>]
         ELSE LET c == Locate(w.fs, P)
              IN  [w EXCEPT !.fs.files = (c :> <<>>) @@ @,
                            !.created = Append(@, c),
                            !.loc = c,
                            !.ops = @ \o <<[op |-> "create", path |-> P, loc |-> c, ok |-> TRUE]>>]

Nul == "NUL"

\* write(2) of data at offset pos: a gap past the end reads as zero bytes
WriteAt(old, pos, data) ==
    LET pad == [i \in 1..(IF pos > Len(old) THEN pos - Len(old) ELSE 0) |-> Nul]
        head == SubSeq(old, 1, IF pos > Len(old) THEN Len(old) ELSE pos) \o pad
        tail == SubSeq(old, pos + Len(data) + 1, Len(old))
    IN  head \o data \o tail

\* a write through a handle on the file at location c, opened as path P
file_write(w, P, c, pos, data) ==
    IF w.err # NoErr THEN w
    ELSE [w EXCEPT !.fs.files[c] = WriteAt(@, pos, data),
                   !.ops = @ \o <<[op |-> "write", path |-> P, loc |-> c, ok |-> TRUE]>>]

file_close(w, P, c) ==
    IF w.err # NoErr THEN w
    ELSE [w EXCEPT !.ops = @ \o <<[op |-> "close", path |-> P, loc |-> c, ok |-> TRUE]>>]

\* ------------------------------------------------------------------ inputs
Descriptors ==
    { [name |-> <<"p">>, package |-> <<>>],
      [name |-> <<"p">>, package |-> <<"a">>],
      [name |-> <<"q">>, package |-> <<"a">>],
      [name |-> <<"q">>, package |-> <<"a", ".", "b">>] }

None == [some |-> FALSE, path |-> <<>>]
Some(p) == [some |-> TRUE, path |-> p]
OutputChoices == {None, Some(<<"x">>), Some(<<"/", "w", "/", "x", "/", "o">>)}

AttrFlagVals == {<<"k", "=", "v">>, <<"k">>}
RouteFlagVals ==
    { <<"p", "=", ".", "/", "x">>, <<"q", "=", "x">>, <<"q", "=", "x", "/">>,
      <<"q", "=", "d", "/", "e", "/", ".", ".", "/", "y", "=", "z">>, <<"q">> }
WrapFlagVals ==
    { <<"p", "=", "m">>, <<"p", "=", "m", ":", ":", "n">>,
      <<"q", "=", "m", ":", ":", "n", ":", ":", "k">>, <<"m">> }

Stale == <<"s", "t", "a", "l", "e", "!">>
InitialFS ==
    { [dirs |-> {<<>>, Cwd}, files |-> <<>>],
      [dirs |-> {<<>>, Cwd, Cwd \o << <<"d">> >>, Cwd \o << <<"d">>, <<"e">> >>},
       files |-> (Cwd \o << <<"d">>, <<"y", "=", "z">> >> :> Stale)] }

\* the selector=value flag loops of lines 98-131, in program order
Categories ==
    << "extern_path", "field_attribute", "type_attribute", "message_attribute",
       "enum_attribute", "server_attribute", "client_attribute" >>

\* ------------------------------------------------------------ module resolver
\* Module::from_protobuf_package_name: the non-empty pieces of the dotted name
from_protobuf_package_name(package) == NonEmpty(split(package, <<".">>))

\* mutant: the membership test before the insert is dropped
RECURSIVE resolve_overwrite(_, _)
resolve_overwrite(map, fds) ==
    IF fds = <<>> THEN [panic |-> FALSE, map |-> map]
    ELSE LET m == from_protobuf_package_name(Head(fds).package)
         IN  resolve_overwrite((m :> Head(fds).name) @@ map, Tail(fds))

\* the closure of lines 176-184 run over the descriptors by collect()
RECURSIVE resolve(_, _)
resolve(map, fds) ==
    IF fds = <<>> THEN [panic |-> FALSE, map |-> map]
    ELSE LET m == from_protobuf_package_name(Head(fds).package)
         IN  IF m \in DOMAIN map THEN [panic |-> TRUE, map |-> map]
             ELSE resolve((m :> Head(fds).name) @@ map, Tail(fds))

\* the generator's text for a descriptor: opaque to the router, distinct per package
GenText(d) == <<"<">> \o d.package \o <<">">>

\* Config::generate, an external collaborator: one unit per requested module
generate(fds) ==
    [m \in {from_protobuf_package_name(fds[i].package) : i \in 1..Len(fds)} |->
        GenText(fds[CHOOSE i \in 1..Len(fds) : from_protobuf_package_name(fds[i].package) = m])]

\* ------------------------------------------------------------------- router
\* line 205-208: the wrap segments registered for the module's source path
modules_in_file_of(input_file, wraps) ==
    IF input_file \in DOMAIN wraps THEN wraps[input_file] ELSE <<>>

\* mutant: the fallback path, when configured, is preferred to the file-path route
Destination_fallback_first(input_file, routes, out) ==
    IF out.some THEN [kind |-> "fallback", path |-> out.path]
    ELSE IF input_file \in DOMAIN routes
         THEN [kind |-> "route", path |-> routes[input_file]]
         ELSE [kind |-> "none", path |-> <<>>]

\* lines 210, 224-229: the file-path route if there is one, else the fallback path, else nothing
Destination(input_file, routes, out) ==
    IF input_file \in DOMAIN routes
    THEN [kind |-> "route", path |-> routes[input_file]]
    ELSE IF out.some THEN [kind |-> "fallback", path |-> out.path]
         ELSE [kind |-> "none", path |-> <<>>]

\* mutant: the fallback file is created again for every module
needs_open_always(of) == TRUE

\* line 225: output_file.is_none()
needs_open(of) == of.state = "none"

\* mutant: the directory is not created
wants_directory_never(create_directory, P) == FALSE

\* lines 212-213 and 230-231: create_directory is set and the path has a parent
wants_directory(create_directory, P) == create_directory /\ HasParent(P)

\* mutant: a module with no route and no fallback is written to a default file
no_output_ignored(kind, of, out) == FALSE

\* lines 224-228: no route, no open fallback handle and no fallback path
no_output(kind, of, out) == kind # "route" /\ needs_open(of) /\ ~out.some

\* mutant: the handle's offset does not move
advance_stuck(h, data) == h

\* the file offset of a handle after data was written through it
advance(h, data) == [h EXCEPT !.pos = @ + Len(data)]

NoPath == PathBuf_from(<<>>)
NoHandle == [state |-> "none", path |-> NoPath, loc |-> <<>>, pos |-> 0]

\* lines 212-222: an explicit route's file is created, written and dropped
\* (the calls in program order are w1, w2, w3: read from the last line up)
route_explicit(w, P, create_directory, data) ==
    The({ The({ The({ file_close(w3, P, w2.loc)
        : w3 \in {file_write(w2, P, w2.loc, 0, data)} })
        : w2 \in {File_create(w1, P)} })
        : w1 \in {IF wants_directory(create_directory, P)
                  THEN create_dir_all(w, Parent(P)) ELSE w} })

\* lines 225-243: the fallback handle is opened when there is none, then written through
route_fallback(w, of, P, create_directory, data) ==
    The({ The({ The({ The({
          [w |-> w3, of |-> IF w3.err = NoErr THEN advance(h, data) ELSE of]
        : w3 \in {file_write(w2, h.path, h.loc, h.pos, data)} })
        : h \in {IF needs_open(of)
                 THEN [state |-> "open", path |-> P, loc |-> w2.loc, pos |-> 0] ELSE of} })
        : w2 \in {IF needs_open(of) THEN File_create(w1, P) ELSE w1} })
        : w1 \in {IF needs_open(of) /\ wants_directory(create_directory, P)
                  THEN create_dir_all(w, Parent(P)) ELSE w} })

\* output_file goes out of scope, at the end of main or when a panic unwinds
\* it: an open handle is closed
drop(of) == IF of.state = "open" THEN [of EXCEPT !.state = "closed"] ELSE of

\* the call that drop(of) makes
drop_calls(of) ==
    IF of.state = "open"
    THEN <<[op |-> "close", path |-> of.path, loc |-> of.loc, ok |-> TRUE]>>
    ELSE <<>>

\* ------------------------------------------------------------------- state
VARIABLES
    pc,                   \* where main is
    cfg_idx,              \* the flag loop of lines 98-131 that runs next
    args,                 \* args.output and args.create_directory
    last_flags,           \* the flag values the last parsing step read
    malformed,            \* categories read so far that held a value without '='
    file_descriptor_set,  \* the decoded descriptors, in input order
    module_to_input,      \* Module -> source path
    modules,              \* Module -> generated text
    pending,              \* modules the loop of line 203 has not visited yet
    output_map,           \* source path -> destination path
    module_in_file_map,   \* source path -> wrap segments
    output_file,          \* the fallback handle
    fs,                   \* directories and files on disk
    fs_init,              \* the disk before the run
    created,              \* files created by the run, in order
    ops,                  \* file-system calls of the last routing step, in order
    written,              \* one record per module written, in order
    panic_msg

vars ==
    << pc, cfg_idx, args, last_flags, malformed, file_descriptor_set, module_to_input,
       modules, pending, output_map, module_in_file_map, output_file, fs, fs_init,
       created, ops, written, panic_msg >>

HasEq(s) == "=" \in Range(s)

Init ==
    /\ pc = "config"
    /\ cfg_idx = 1
    /\ args \in [output : OutputChoices, create_directory : BOOLEAN]
    /\ last_flags = <<>>
    /\ malformed = {}
    /\ file_descriptor_set = <<>>
    /\ module_to_input = <<>>
    /\ modules = <<>>
    /\ pending = {}
    /\ output_map = <<>>
    /\ module_in_file_map = <<>>
    /\ output_file = NoHandle
    /\ fs \in InitialFS
    /\ fs_init = fs
    /\ created = <<>>
    /\ ops = <<>>
    /\ written = <<>>
    /\ panic_msg = NoErr

\* what a parsing step records about the values it read
Read(cat, flags) ==
    /\ last_flags' = flags
    /\ malformed' = malformed \cup (IF \E i \in 1..Len(flags) : ~HasEq(flags[i]) THEN {cat} ELSE {})

Panic(msg) ==
    /\ pc' = "panic"
    /\ panic_msg' = msg

\* lines 98-131: one loop over the values of one flag category
ParseAttribute ==
    /\ pc = "config"
    /\ \E flags \in SeqsUpTo(AttrFlagVals, MaxAttrFlags) :
        /\ Read(Categories[cfg_idx], flags)
        /\ IF AnyPanics(flags)
           THEN Panic("not in the form of a=b") /\ UNCHANGED cfg_idx
           ELSE /\ panic_msg' = panic_msg
                /\ IF cfg_idx = Len(Categories)
                   THEN pc' = "load" /\ UNCHANGED cfg_idx
                   ELSE pc' = pc /\ cfg_idx' = cfg_idx + 1
    /\ UNCHANGED << args, file_descriptor_set, module_to_input, modules, pending, output_map,
                    module_in_file_map, output_file, fs, fs_init, created, ops, written >>

\* lines 138-169: the input is read and decoded, or the run fails
LoadInput ==
    /\ pc = "load"
    /\ \/ /\ \E fds \in SeqsUpTo(Descriptors, MaxFiles) : file_descriptor_set' = fds
          /\ pc' = "resolve"
          /\ panic_msg' = panic_msg
       \/ /\ \E msg \in {"failed to read input", "failed to decode input"} : Panic(msg)
          /\ UNCHANGED file_descriptor_set
    /\ last_flags' = <<>>
    /\ UNCHANGED << cfg_idx, args, malformed, module_to_input, modules, pending, output_map,
                    module_in_file_map, output_file, fs, fs_init, created, ops, written >>

\* lines 171-185: every descriptor's module is recorded, a second one for a module is fatal
Resolve ==
    /\ pc = "resolve"
    /\ LET r == resolve(<<>>, file_descriptor_set)
       IN  IF r.panic
           THEN Panic("module duplicate") /\ module_to_input' = r.map
           ELSE /\ module_to_input' = r.map
                /\ pc' = "generate"
                /\ panic_msg' = panic_msg
    /\ UNCHANGED << cfg_idx, args, last_flags, malformed, file_descriptor_set, modules,
                    pending, output_map, module_in_file_map, output_file, fs, fs_init,
                    created, ops, written >>

\* line 187: the generator returns the module-to-text map, or fails
Generate ==
    /\ pc = "generate"
    /\ \/ /\ modules' = generate(file_descriptor_set)
          /\ pending' = DOMAIN modules'
          /\ pc' = "output_map"
          /\ panic_msg' = panic_msg
       \/ /\ Panic("generate failed")
          /\ UNCHANGED << modules, pending >>
    /\ UNCHANGED << cfg_idx, args, last_flags, malformed, file_descriptor_set,
                    module_to_input, output_map, module_in_file_map, output_file, fs,
                    fs_init, created, ops, written >>

\* lines 191-195
ParseOutputMap ==
    /\ pc = "output_map"
    /\ \E flags \in SeqsUpTo(RouteFlagVals, MaxRouteFlags) :
        /\ Read("output_map", flags)
        /\ IF AnyPanics(flags)
           THEN Panic("not in the form of a=b") /\ UNCHANGED output_map
           ELSE /\ output_map' = InsertAll(<<>>, flags)
                /\ pc' = "module_in_file"
                /\ panic_msg' = panic_msg
    /\ UNCHANGED << cfg_idx, args, file_descriptor_set, module_to_input, modules, pending,
                    module_in_file_map, output_file, fs, fs_init, created, ops, written >>

\* lines 197-201
ParseModuleInFile ==
    /\ pc = "module_in_file"
    /\ \E flags \in SeqsUpTo(WrapFlagVals, MaxWrapFlags) :
        /\ Read("module_in_file", flags)
        /\ IF AnyPanics(flags)
           THEN Panic("not in the form of a=b") /\ UNCHANGED module_in_file_map
           ELSE /\ LET raw == InsertAll(<<>>, flags)
                   IN  module_in_file_map' = [k \in DOMAIN raw |-> split(raw[k], <<":", ":">>)]
                /\ pc' = "route"
                /\ panic_msg' = panic_msg
    /\ UNCHANGED << cfg_idx, args, file_descriptor_set, module_to_input, modules, pending,
                    output_map, output_file, fs, fs_init, created, ops, written >>

\* lines 203-245: one iteration of the loop over the generated map, whose order is
\* unspecified; an unwrap that fails unwinds main, which drops output_file
RouteModule ==
    /\ pc = "route"
    /\ \E module \in pending :
        LET input_file == module_to_input[module]
            modules_in_file == modules_in_file_of(input_file, module_in_file_map)
            data == write_with_module(modules[module], modules_in_file)
            dest == Destination(input_file, output_map, args.output)
            P == PathBuf_from(dest.path)
            w0 == [fs |-> fs, ops |-> <<>>, err |-> NoErr, created |-> created, loc |-> <<>>]
            routed == IF dest.kind = "route"
                      THEN [w |-> route_explicit(w0, P, args.create_directory, data),
                            of |-> output_file]
                      ELSE route_fallback(w0, output_file, P, args.create_directory, data)
        IN  IF no_output(dest.kind, output_file, args.output)
            THEN /\ Panic("module has no output")
                 /\ ops' = <<>>
                 /\ UNCHANGED << pending, output_file, fs, created, written >>
            ELSE \E r \in {routed} :
                 /\ fs' = r.w.fs
                 /\ created' = r.w.created
                 /\ IF r.w.err # NoErr
                    THEN /\ Panic(r.w.err)
                         /\ ops' = r.w.ops \o drop_calls(output_file)
                         /\ output_file' = drop(output_file)
                         /\ UNCHANGED << pending, written >>
                    ELSE /\ pending' = pending \ {module}
                         /\ ops' = r.w.ops
                         /\ output_file' = r.of
                         /\ written' = Append(written,
                                [module |-> module, input_file |-> input_file,
                                 kind |-> dest.kind, dest |-> dest.path,
                                 path |-> IF dest.kind = "route" THEN r.w.loc ELSE r.of.loc,
                                 pos |-> IF dest.kind = "route" THEN 0
                                         ELSE IF needs_open(output_file) THEN 0
                                         ELSE output_file.pos,
                                 content |-> modules[module], mods |-> modules_in_file,
                                 data |-> data])
                         /\ UNCHANGED << pc, panic_msg >>
    /\ last_flags' = <<>>
    /\ UNCHANGED << cfg_idx, args, malformed, file_descriptor_set, module_to_input, modules,
                    output_map, module_in_file_map, fs_init >>

\* lines 246-247: the loop is over, main returns and the fallback handle is dropped
Exit ==
    /\ pc = "route"
    /\ pending = {}
    /\ pc' = "done"
    /\ output_file' = drop(output_file)
    /\ ops' = drop_calls(output_file)
    /\ last_flags' = <<>>
    /\ UNCHANGED << cfg_idx, args, malformed, file_descriptor_set, module_to_input, modules,
                    pending, output_map, module_in_file_map, fs, fs_init, created, written,
                    panic_msg >>

Next ==
    \/ ParseAttribute
    \/ LoadInput
    \/ Resolve
    \/ Generate
    \/ ParseOutputMap
    \/ ParseModuleInFile
    \/ RouteModule
    \/ Exit

Spec == Init /\ [][Next]_vars

\* ------------------------------------------------------------------ claims
\* the file the fallback handle is open on
Fallback == output_file.loc

FileAt(c) == IF c \in DOMAIN fs.files THEN fs.files[c] ELSE <<>>

ModuleOf(d) == from_protobuf_package_name(d.package)

\* C1: every unit written went to the file-path route registered for the source
\* path of the descriptor that produced its module when there is one, and
\* otherwise to the configured fallback path (this program has no table of
\* routes keyed by module, so that step of the chain never applies).
C1_DestinationPriority ==
    \A i \in 1..Len(written) :
        LET e == written[i]
            sources == {d \in Range(file_descriptor_set) : ModuleOf(d) = e.module}
        IN  /\ \A d \in sources : e.input_file = d.name
            /\ e.path \in Range(created)
            /\ e.path = Locate(fs, PathBuf_from(e.dest))
            /\ IF e.input_file \in DOMAIN output_map
               THEN e.kind = "route" /\ e.dest = output_map[e.input_file]
               ELSE e.kind = "fallback" /\ args.output.some /\ e.dest = args.output.path

\* a run where a routed module went to its route although a fallback was
\* configured, and an unrouted module went to the fallback
C1_Witness ==
    /\ pc = "done"
    /\ \E i, j \in 1..Len(written) :
        /\ written[i].kind = "route" /\ args.output.some /\ written[i].path # Fallback
        /\ written[j].kind = "fallback" /\ written[j].path = Fallback

HasDuplicateModule ==
    \E i, j \in 1..Len(file_descriptor_set) :
        i < j /\ ModuleOf(file_descriptor_set[i]) = ModuleOf(file_descriptor_set[j])

FirstFor(m) ==
    CHOOSE i \in 1..Len(file_descriptor_set) :
        /\ ModuleOf(file_descriptor_set[i]) = m
        /\ \A j \in 1..(i - 1) : ModuleOf(file_descriptor_set[j]) # m

\* C5: when two descriptors resolve to the same module the run ends with the
\* "module duplicate" error, the generator has not run, no file was opened,
\* and the module-to-source-path map still holds the first descriptor's path.
C5_DuplicateModuleFatal ==
    /\ HasDuplicateModule =>
        /\ pc \in {"resolve", "panic"}
        /\ pc = "panic" => panic_msg = "module duplicate"
        /\ modules = <<>>
        /\ fs = fs_init /\ created = <<>> /\ output_file = NoHandle
    /\ \A m \in DOMAIN module_to_input :
        module_to_input[m] = file_descriptor_set[FirstFor(m)].name

\* the run has failed on a second descriptor whose source path differs from the first's
C5_Witness ==
    /\ pc = "panic" /\ panic_msg = "module duplicate"
    /\ \E i, j \in 1..Len(file_descriptor_set) :
        /\ i < j
        /\ ModuleOf(file_descriptor_set[i]) = ModuleOf(file_descriptor_set[j])
        /\ file_descriptor_set[i].name # file_descriptor_set[j].name
        /\ module_to_input[ModuleOf(file_descriptor_set[i])] = file_descriptor_set[i].name

FirstEq(f) == CHOOSE k \in 1..Len(f) : f[k] = "=" /\ \A j \in 1..(k - 1) : f[j] # "="
KeyOf(f) == SubSeq(f, 1, FirstEq(f) - 1)
ValueOf(f) == SubSeq(f, FirstEq(f) + 1, Len(f))

\* C6: once any selector=value category held a value without '=', the run has
\* failed with the a=b error and the disk is as it was before the run; and the
\* output-map table holds, for each key, the text after the first '=' of the
\* last flag whose text before the first '=' is that key.
C6_MalformedFlagFatal ==
    /\ malformed # {} =>
        /\ pc = "panic" /\ panic_msg = "not in the form of a=b"
        /\ fs = fs_init /\ created = <<>> /\ output_file = NoHandle
    /\ pc = "module_in_file" =>
        /\ DOMAIN output_map = {KeyOf(last_flags[i]) : i \in 1..Len(last_flags)}
        /\ \A i \in 1..Len(last_flags) :
            (\A j \in (i + 1)..Len(last_flags) : KeyOf(last_flags[j]) # KeyOf(last_flags[i]))
                => output_map[KeyOf(last_flags[i])] = ValueOf(last_flags[i])

\* the generator has run, output-map held a value with a second '=', and the
\* run failed on a module-in-file value without '='
C6_Witness ==
    /\ pc = "panic" /\ malformed = {"module_in_file"}
    /\ modules # <<>>
    /\ \E k \in DOMAIN output_map : "=" \in Range(output_map[k])

Lines(data) == split(data, NewLine)

\* C8: the bytes written for a unit are, line by line, one opening declaration
\* per wrap segment in order, the generated text, and as many closing markers
\* as there were opening declarations; with no segment they are the text alone.
C8_WrapNesting ==
    \A i \in 1..Len(written) :
        LET e == written[i]
            n == Len(e.mods)
            L == Lines(e.data)
        IN  /\ e.content = modules[e.module]
            /\ Len(L) = 2 * n + 2
            /\ \A k \in 1..n : L[k] = PubMod \o e.mods[k] \o <<" ", "{">>
            /\ L[n + 1] = e.content
            /\ \A k \in (n + 2)..(2 * n + 1) : L[k] = <<"}">>
            /\ L[2 * n + 2] = <<>>
            /\ Cardinality({k \in 1..Len(L) : L[k] = <<"}">>})
                 = Cardinality({k \in 1..Len(L) : IsPrefix(PubMod, L[k])})
            /\ n = 0 => e.data = e.content \o NewLine

\* a unit was written inside three nested declarations
C8_Witness ==
    \E i \in 1..Len(written) :
        /\ Len(written[i].mods) = 3
        /\ written[i].kind = "route"
        /\ FileAt(written[i].path) = written[i].data

Idx == 1..Len(written)

\* the descriptors of the input have pairwise distinct source paths
UniqueNames ==
    \A i, j \in 1..Len(file_descriptor_set) :
        i # j => file_descriptor_set[i].name # file_descriptor_set[j].name

\* the wrapped text the router writes for a descriptor
WrappedFor(d) ==
    write_with_module(GenText(d), modules_in_file_of(d.name, module_in_file_map))

Unrouted == SelectSeq(file_descriptor_set, LAMBDA d : d.name \notin DOMAIN output_map)

NoRouteToFallback ==
    \A k \in 1..Len(written) : written[k].kind = "route" => written[k].path # Fallback

\* C2: after a run with a fallback path and at least two modules without a
\* route, the fallback file is the wrapped texts of those modules concatenated
\* in the order of their descriptors in the input (checked on inputs whose
\* source paths are distinct and whose routes do not lead to the fallback file).
C2_FallbackInInputOrder ==
    (pc = "done" /\ args.output.some /\ UniqueNames /\ NoRouteToFallback /\ Len(Unrouted) >= 2)
        => FileAt(Fallback) = Flatten([i \in 1..Len(Unrouted) |-> WrappedFor(Unrouted[i])])

\* i is written by an explicit route, j by the fallback
RoutePair(i, j) == written[i].kind = "route" /\ written[j].kind = "fallback"

\* the content of a module with an explicit route and of one with none, after the run
Separated(i, j) ==
    /\ FileAt(written[i].path) = written[i].data
    /\ ~Occurs(written[i].content, FileAt(Fallback))
    /\ Occurs(written[j].data, FileAt(Fallback))
    /\ ~Occurs(written[j].content, FileAt(written[i].path))
    /\ \A k \in Idx :
        ~(Occurs(written[k].content, FileAt(written[i].path))
            /\ Occurs(written[k].content, FileAt(Fallback)))

\* C3 as stated: after the run, for a module A with an explicit route and a
\* module B without, A's routed file holds exactly A's wrapped text, A's text
\* is not in the fallback file, B's text is in the fallback file and not in
\* A's file, and no text is in both, whatever the paths are (checked on inputs
\* whose source paths are distinct).
C3_Original ==
    (pc = "done" /\ UniqueNames) => \A i, j \in Idx : RoutePair(i, j) => Separated(i, j)

\* A's routed file is no other module's destination and no explicit route names the fallback path
Exclusive(i) ==
    /\ \A k \in Idx : k # i => written[k].path # written[i].path
    /\ \A k \in Idx : written[k].kind = "route" => written[k].path # Fallback

\* C3 amended: the same, provided A's routed file is the destination of no
\* other module and no module's explicit route names the fallback path.
C3_RouteAndFallbackSeparate ==
    pc = "done" => \A i, j \in Idx : (RoutePair(i, j) /\ Exclusive(i)) => Separated(i, j)

\* A's route named a file that held older, longer content before the run
C3_Witness ==
    /\ pc = "done"
    /\ \E i, j \in Idx :
        /\ RoutePair(i, j) /\ Exclusive(i)
        /\ written[i].path \in DOMAIN fs_init.files
        /\ Len(fs_init.files[written[i].path]) > Len(written[i].data)

\* the bytes of entry i are in its destination at the offset they were written at
Present(i) ==
    LET e == written[i]
    IN  /\ e.path \in DOMAIN fs.files
        /\ Len(fs.files[e.path]) >= e.pos + Len(e.data)
        /\ SubSeq(fs.files[e.path], e.pos + 1, e.pos + Len(e.data)) = e.data

WrittenOnce ==
    /\ \A m \in DOMAIN modules : Cardinality({i \in Idx : written[i].module = m}) = 1
    /\ \A i \in Idx : written[i].module \in DOMAIN modules

\* C4 as stated: after a run that completes, every generated module was
\* written exactly once, to one destination, and its text is in that
\* destination (checked on inputs whose source paths are distinct).
C4_Original ==
    (pc = "done" /\ UniqueNames) => (WrittenOnce /\ \A i \in Idx : Present(i))

\* no explicit-route destination is the destination of another module
RoutesExclusive ==
    \A i, k \in Idx : (written[i].kind = "route" /\ k # i) => written[k].path # written[i].path

\* C4 amended: after a run that completes every generated module was written
\* exactly once to one destination; and, provided no explicit-route destination
\* file is also the destination of another module, every module's text is in
\* its destination at the end of the run.
C4_EveryModuleWritten ==
    pc = "done" => (WrittenOnce /\ (RoutesExclusive => \A i \in Idx : Present(i)))

\* three modules, two of them sharing the fallback file after the routed one
C4_Witness ==
    /\ pc = "done" /\ RoutesExclusive
    /\ Len(written) = 3
    /\ \E i, j, k \in Idx :
        /\ i < j /\ j < k
        /\ written[i].kind = "route"
        /\ written[j].kind = "fallback" /\ written[k].kind = "fallback"
        /\ written[k].pos = Len(written[j].data)

SourceOf(m) == module_to_input[m]

\* C7: with no fallback path, a routing step taken when no pending module has
\* a route fails with "module has no output"; the failing step changes no
\* file, creates no directory and writes no module; no module without a
\* route is ever written; and nothing changes once the run has failed.
C7_NoOutputFatal ==
    [][ /\ (pc = "route" /\ ~args.output.some /\ pending # {}
              /\ \A m \in pending : SourceOf(m) \notin DOMAIN output_map)
            => (pc' = "panic" /\ panic_msg' = "module has no output")
        /\ (pc' = "panic" /\ panic_msg' = "module has no output")
            => (/\ pc = "route" /\ ~args.output.some
                /\ \E m \in pending : SourceOf(m) \notin DOMAIN output_map
                /\ fs' = fs /\ created' = created /\ written' = written
                /\ output_file' = output_file /\ ops' = <<>>)
        /\ (~args.output.some /\ written' # written)
            => written'[Len(written')].kind = "route"
        /\ pc = "panic" => fs' = fs
      ]_vars

\* an explicit route wrote its file, then a module without a route failed the
\* run, and the file written earlier still holds what was written
C7_Witness ==
    /\ pc = "panic" /\ panic_msg = "module has no output"
    /\ Len(written) = 1
    /\ written[1].kind = "route"
    /\ FileAt(written[1].path) = written[1].data
    /\ DOMAIN fs.files = DOMAIN fs_init.files \cup {written[1].path}

OpsOf(kind) == {k \in 1..Len(ops) : ops[k].op = kind}

\* the path and the paths of its ancestors that have a name
Ancestors(P) == {[P EXCEPT !.comps = SubSeq(@, 1, n)] : n \in 1..Len(P.comps)}

\* the directory the file P would be created in is there (for a single name
\* it is the working directory)
ParentPresent(f, P) == walk(f, Start(P), Front(P.comps)).ok

\* C9: with directory creation enabled, every attempt to create a destination
\* that has a parent comes after a successful create_dir_all of that parent,
\* which is then a directory, as are all its ancestors; a create_dir_all that
\* fails ends the run before any file is created; with directory creation
\* disabled no directory is created, and creating a destination whose parent
\* is no directory fails and ends the run.
C9_DirectoryCreation ==
    /\ \A k \in OpsOf("create") :
        (args.create_directory /\ HasParent(ops[k].path)) =>
            /\ \E j \in 1..(k - 1) :
                /\ ops[j].op = "create_dir_all" /\ ops[j].ok
                /\ ops[j].path = Parent(ops[k].path)
            /\ \A A \in Ancestors(Parent(ops[k].path)) : is_dir(fs, A)
    /\ \A k \in OpsOf("create_dir_all") :
        /\ args.create_directory
        /\ ~ops[k].ok =>
            /\ pc = "panic" /\ panic_msg = "failed to create directory"
            /\ OpsOf("create") = {} /\ OpsOf("write") = {}
    /\ ~args.create_directory => fs.dirs = fs_init.dirs
    /\ \A k \in OpsOf("create") :
        (HasParent(ops[k].path) /\ ~ParentPresent(fs, ops[k].path)) =>
            /\ ~args.create_directory
            /\ ~ops[k].ok
            /\ fs.files = fs_init.files \/ written # <<>>
            /\ pc = "panic" /\ panic_msg = "failed to create file"

\* two missing levels of directory were created and the destination then opened
C9_Witness ==
    /\ args.create_directory
    /\ pc = "route"
    /\ \E j, k \in 1..Len(ops) :
        /\ j < k
        /\ ops[j].op = "create_dir_all" /\ ops[j].ok
        /\ Cardinality(fs.dirs \ fs_init.dirs) = 2
        /\ ops[k].op = "create" /\ ops[k].ok /\ Parent(ops[k].path) = ops[j].path
        /\ Front(ops[k].loc) \in fs.dirs \ fs_init.dirs

NoRepeat(s) == \A a, b \in 1..Len(s) : a # b => s[a] # s[b]

FallbackIdx == {i \in Idx : written[i].kind = "fallback"}

RECURSIVE SumLen(_)
SumLen(S) == IF S = {} THEN 0
             ELSE LET i == CHOOSE i \in S : TRUE IN Len(written[i].data) + SumLen(S \ {i})

\* the fallback handle: opened by the first fallback-routed module, written
\* through by every later one at the offset the earlier ones left, closed
\* when main returns or a failure unwinds it
FallbackLifecycle ==
    /\ output_file.state # "none" <=> FallbackIdx # {}
    /\ output_file.state = "open" <=> (pc = "route" /\ FallbackIdx # {})
    /\ pc \in {"done", "panic"} => output_file.state \in {"none", "closed"}
    /\ \A i \in FallbackIdx :
        /\ written[i].path = output_file.loc
        /\ written[i].dest = args.output.path
        /\ output_file.path = PathBuf_from(args.output.path)
        /\ written[i].pos = SumLen({j \in FallbackIdx : j < i})
    /\ (pc = "route" /\ written # <<>> /\ written[Len(written)].kind = "fallback") =>
        /\ OpsOf("close") = {}
        /\ Cardinality(OpsOf("create")) = (IF Cardinality(FallbackIdx) = 1 THEN 1 ELSE 0)

\* an explicit route's file is created, written once and closed within its module's step
ExplicitLifecycle ==
    (pc = "route" /\ written # <<>> /\ written[Len(written)].kind = "route") =>
        LET c == written[Len(written)].path
            tail == SubSeq(ops, Len(ops) - 2, Len(ops))
        IN  /\ Len(ops) >= 3
            /\ [k \in 1..3 |-> tail[k].op] = <<"create", "write", "close">>
            /\ \A k \in 1..3 : tail[k].ok /\ tail[k].loc = c
            /\ \A k \in 1..(Len(ops) - 3) : ops[k].op = "create_dir_all"

\* C10 as stated: no path is created twice in a run, the fallback handle is
\* opened once by the first fallback-routed module and shared by the later
\* ones, and an explicit route's file is created, written and closed for one
\* module and is no other module's destination (checked on inputs whose source
\* paths are distinct).
C10_Original ==
    UniqueNames =>
        /\ NoRepeat(created)
        /\ FallbackLifecycle
        /\ ExplicitLifecycle
        /\ RoutesExclusive

\* C10 amended: the fallback handle is opened once by the first
\* fallback-routed module and shared by the later ones, and an explicit
\* route's file is created, written and closed within its module's step;
\* provided no explicit-route destination file is also the destination of
\* another module, no path is created (truncated) twice in a run.
C10_DestinationLifecycle ==
    /\ FallbackLifecycle
    /\ ExplicitLifecycle
    /\ RoutesExclusive => NoRepeat(created)

\* a routed module and two fallback modules were written and the run is over
C10_Witness ==
    /\ pc = "done" /\ RoutesExclusive
    /\ Cardinality(FallbackIdx) = 2
    /\ Cardinality(Idx \ FallbackIdx) = 1
    /\ output_file.state = "closed"
    /\ Len(created) = 2

====
